---- MODULE Spec2Model ----
(***************************************************************************)
(* Model of the connection-management layer of lego-powered-up             *)
(* (src/lego-powered-up/src/lib.rs): the hub identification function, the  *)
(* Discovery Listener, the Connection/Discovery Manager actor              *)
(* (PoweredUpInternal), the Hub Registry actor (HubManager), the facade    *)
(* operations create_hub / wait_for_hub* / stop and the controller handles.*)
(***************************************************************************)
EXTENDS Integers, Sequences, FiniteSets, TLC

VARIABLES
    props,              \* identify: the PeripheralProperties under test
    identified,         \* identify: its outcome for props
    events,             \* number of adapter events delivered so far
    event_source,       \* "open" | "disconnected" (the adapter's std mpsc sender)
    listener,           \* btle_notification_listener task: [pc, notification]
    adapter_lock,       \* "ok" | "poisoned": the RwLock around the Adapter
    device_notification_channel, \* channel(16) listener -> manager
    control_channel,    \* channel(10) facade -> manager
    pu_internal,        \* "running" | "stopped": PoweredUpInternal::run task
    discovered_hubs,    \* PoweredUpInternal.discovered_hubs
    hub_notifications,  \* PoweredUpInternal.hub_notifications (Option)
    waits,              \* wait_for_hub_filter_timeout_internal calls
    stops,              \* number of PoweredUp::stop calls issued
    command_channel,    \* channel(10) clients/callbacks -> HubManager
    hub_manager,        \* "running" | "panicked": HubManager::run task
    hubs,               \* HubManager::run's `hubs` map: the live addresses
    connected,          \* peripherals whose BLE link is up
    callbacks,          \* peripherals with an on_notification callback installed
    create,             \* the create_hub call in progress
    creates,            \* number of create_hub calls started
    controllers,        \* addresses for which a HubController was handed out
    devices,            \* addresses for which a PortController was handed out
    calls,              \* HubController / device requests and their replies
    notifs,             \* hardware notification buffers delivered so far
    panic_cause,        \* why the HubManager task panicked, None while it runs
    ever_disconnected,  \* history: addresses whose Disconnect was answered Ok
    now_disconnected    \* history: those with no successful connect since

vars == << props, identified, events, event_source, listener, adapter_lock,
           device_notification_channel, control_channel, pu_internal,
           discovered_hubs, hub_notifications, waits, stops,
           command_channel, hub_manager, hubs, connected, callbacks,
           create, creates, controllers, devices, calls, notifs, panic_cause,
           ever_disconnected, now_disconnected >>

identVars == << props, identified >>

discoveryVars == << events, event_source, listener, adapter_lock,
                    device_notification_channel, control_channel, pu_internal,
                    discovered_hubs, hub_notifications, waits, stops >>

registryVars == << command_channel, hub_manager, hubs, callbacks,
                   create, creates, controllers, devices, calls,
                   notifs, panic_cause, ever_disconnected, now_disconnected >>

(***************************************************************************)
(* Bounds of the model                                                     *)
(***************************************************************************)
MaxPayloadLen == 3      \* longest vendor payload tried by identify
MaxDiscoveryInputs == 3 \* adapter events, wait_for_hub* and stop calls in one run
MaxRequests == 4        \* create_hub calls, HubController / device requests
                        \* and raw hardware notifications in one run
MaxBurst == 11           \* raw hardware notifications in one burst
MaxStopInputs == 4       \* calls of every kind in a run with stop

(***************************************************************************)
(* Program constants                                                       *)
(***************************************************************************)
LegoVendorId == 919             \* props.manufacturer_data.get(&919)
OtherVendorId == LegoVendorId + 1   \* some vendor id that is not 919
Retries == 10                   \* create_hub: let retries: usize = 10
ControlCapacity == 10           \* PoweredUp::run: channel(10) (control)
CommandCapacity == 10           \* PoweredUp::run: channel(10) (hub manager)
NotificationCapacity == 16      \* PoweredUpInternal::run: channel(16)

None == "None"

(***************************************************************************)
(* consts::HubType, consts::BLEManufacturerData, consts::bleservice        *)
(***************************************************************************)
HubType == { "Unknown", "Wedo2SmartHub", "MoveHub", "Hub", "RemoteControl",
             "DuploTrainBase", "TechnicMediumHub", "Mario" }

WEDO2_SMART_HUB == "00001523-1212-efde-1523-785feabcd123"
LPF2_HUB == "00001623-1212-efde-1623-785feabcd123"
OTHER_SERVICE == "0000180a-0000-1000-8000-00805f9b34fb"

\* BLEManufacturerData::from_u8: the closed code table (Some(id) or None)
BLEManufacturerData_from_u8(b) ==
    CASE b = 32 -> "DuploTrainBaseId"
      [] b = 64 -> "MoveHubId"
      [] b = 65 -> "HubId"
      [] b = 66 -> "RemoteControlId"
      [] b = 67 -> "MarioId"
      [] b = 128 -> "TechnicMediumHubId"
      [] OTHER -> None

(***************************************************************************)
(* IdentifyHub::identify.  A peripheral's properties are                   *)
(* [local_name, services, manufacturer_data]; manufacturer_data is a       *)
(* function from the vendor ids present to their payloads (byte            *)
(* sequences).  The outcome is a HubType, None, or "Panic" when the index  *)
(* manufacturer_id[1] is out of bounds.                                    *)
(***************************************************************************)
KindOfId(m) ==
    CASE m = "DuploTrainBaseId" -> "DuploTrainBase"
      [] m = "HubId" -> "Hub"
      [] m = "MarioId" -> "Mario"
      [] m = "MoveHubId" -> "MoveHub"
      [] m = "RemoteControlId" -> "RemoteControl"
      [] m = "TechnicMediumHubId" -> "TechnicMediumHub"

\* identify with the two service branches in the other order
identify_lpf2_first(p) ==
    IF LPF2_HUB \in p.services
    THEN IF LegoVendorId \in DOMAIN p.manufacturer_data
         THEN LET manufacturer_id == p.manufacturer_data[LegoVendorId]
              IN  IF Len(manufacturer_id) < 2
                  THEN "Panic"
                  ELSE LET m == BLEManufacturerData_from_u8(manufacturer_id[2])
                       IN  IF m # None THEN KindOfId(m) ELSE None
         ELSE None
    ELSE IF WEDO2_SMART_HUB \in p.services THEN "Wedo2SmartHub" ELSE None

identify(p) ==
    IF WEDO2_SMART_HUB \in p.services
    THEN "Wedo2SmartHub"
    ELSE IF LPF2_HUB \in p.services
         THEN IF LegoVendorId \in DOMAIN p.manufacturer_data
              THEN LET manufacturer_id == p.manufacturer_data[LegoVendorId]
                   IN  IF Len(manufacturer_id) < 2
                       THEN "Panic"     \* manufacturer_id[1]: index out of bounds
                       ELSE LET m == BLEManufacturerData_from_u8(manufacturer_id[2])
                            IN  IF m # None THEN KindOfId(m) ELSE None
              ELSE None
         ELSE None

\* The inputs identify is tried on
PadBytes == {0, 6}
Payloads ==
    { [i \in 1..n |-> IF i = 2 THEN c ELSE pad] :
        n \in 0..MaxPayloadLen, c \in 0..255, pad \in PadBytes }
OtherPayloads == { <<>>, <<0, 128>> }
ManufacturerData ==
    { << >> }
      \cup { (LegoVendorId :> p) : p \in Payloads }
      \cup { (OtherVendorId :> q) : q \in OtherPayloads }
      \cup { (LegoVendorId :> p) @@ (OtherVendorId :> q) :
                p \in Payloads, q \in OtherPayloads }
IdentifyInputs ==
    { [local_name |-> "game", services |-> s, manufacturer_data |-> md] :
        s \in SUBSET {WEDO2_SMART_HUB, LPF2_HUB, OTHER_SERVICE},
        md \in ManufacturerData }

NoProps == [local_name |-> None, services |-> {}, manufacturer_data |-> << >>]

IdentifyCall ==
    /\ identified = "NotCalled"
    /\ identified' = identify(props)
    /\ UNCHANGED << props, discoveryVars, registryVars, connected >>

(***************************************************************************)
(* The adapter's peripherals.  A BDAddr is its six bytes as stored         *)
(* (least significant first); strings that are compared character by      *)
(* character are sequences of one-character strings.                       *)
(***************************************************************************)
AddrGame == << 184, 60, 96, 43, 132, 144 >>     \* 90:84:2B:60:3C:B8
AddrHub == << 1, 0, 171, 43, 132, 144 >>        \* 90:84:2B:AB:00:01
AddrTv == << 2, 0, 0, 0, 0, 0 >>                \* 00:00:00:00:00:02
AddrAnon == << 3, 0, 0, 0, 0, 0 >>              \* 00:00:00:00:00:03
AddrShort == << 4, 0, 0, 0, 0, 0 >>             \* 00:00:00:00:00:04
AddrGhost == << 5, 0, 0, 0, 0, 0 >>             \* known to no adapter
AddrCrane == << 6, 0, 171, 43, 132, 144 >>      \* 90:84:2B:AB:00:06

Lego(bytes) == (LegoVendorId :> bytes)

Peripherals ==
    (AddrGame :> [local_name |-> "game", services |-> {LPF2_HUB},
                  manufacturer_data |-> Lego(<< 0, 128, 6, 0, 97, 0 >>)])
    @@ (AddrHub :> [local_name |-> "hub", services |-> {LPF2_HUB},
                    manufacturer_data |-> Lego(<< 0, 65, 0 >>)])
    @@ (AddrTv :> [local_name |-> "tv", services |-> {OTHER_SERVICE},
                   manufacturer_data |-> << >>])
    @@ (AddrAnon :> [local_name |-> None, services |-> {LPF2_HUB},
                     manufacturer_data |-> Lego(<< 0, 128 >>)])
    @@ (AddrShort :> [local_name |-> "short", services |-> {LPF2_HUB},
                      manufacturer_data |-> Lego(<< 0 >>)])
    @@ (AddrCrane :> [local_name |-> "crane", services |-> {LPF2_HUB},
                      manufacturer_data |-> Lego(<< 0, 128, 6, 0, 97, 0 >>)])

HexDigits == << "0", "1", "2", "3", "4", "5", "6", "7",
                "8", "9", "A", "B", "C", "D", "E", "F" >>

\* format!("{:02X}", b)
Hex02X(b) == << HexDigits[(b \div 16) + 1], HexDigits[(b % 16) + 1] >>

\* BDAddr::to_string(): the bytes from the most significant, "XX:XX:XX:XX:XX:XX"
BDAddr_to_string(a) ==
    Hex02X(a[6]) \o << ":" >> \o Hex02X(a[5]) \o << ":" >> \o Hex02X(a[4])
      \o << ":" >> \o Hex02X(a[3]) \o << ":" >> \o Hex02X(a[2])
      \o << ":" >> \o Hex02X(a[1])

(***************************************************************************)
(* DiscoveredHub, HubFilter                                                *)
(***************************************************************************)
DiscoveredHub(t, a, n) == [hub_type |-> t, addr |-> a, name |-> n]
NoHub == DiscoveredHub(None, << >>, "")

\* Option<HubFilter>: kind is None, "Name" (name is used) or "Addr" (addr is used)
NoFilter == [kind |-> None, name |-> "", addr |-> << >>]
NameFilter(n) == [kind |-> "Name", name |-> n, addr |-> << >>]
AddrFilter(a) == [kind |-> "Addr", name |-> "", addr |-> a]

GameAddrString == << "9", "0", ":", "8", "4", ":", "2", "B", ":",
                     "6", "0", ":", "3", "C", ":", "B", "8" >>
GameAddrLower == << "9", "0", ":", "8", "4", ":", "2", "b", ":",
                    "6", "0", ":", "3", "c", ":", "b", "8" >>

\* The filters the wait_for_hub* callers pass
Filters == { NoFilter, NameFilter("game"), AddrFilter(GameAddrString),
             AddrFilter(GameAddrLower) }

\* matches that compares neither the name nor the address
matches_any(f, hub) ==
    CASE f.kind = "Name" -> TRUE
      [] f.kind = "Addr" -> TRUE

\* HubFilter::matches
matches(f, hub) ==
    CASE f.kind = "Name" -> hub.name = f.name
      [] f.kind = "Addr" -> BDAddr_to_string(hub.addr) = f.addr

(***************************************************************************)
(* Discovery Listener: PoweredUpInternal::btle_notification_listener       *)
(***************************************************************************)
\* The adapter events delivered and the facade calls issued so far
DiscoveryInputs ==
    events + stops + Cardinality({ w \in 1..MaxDiscoveryInputs : waits[w].pc # "idle" })

CentralEvents ==
    { [kind |-> k, dev |-> a] :
        k \in {"DeviceDiscovered", "DeviceUpdated"}, a \in DOMAIN Peripherals }

\* notification_for without the !peripheral.is_connected() test
notification_for_any_link(evt, is_connected) ==
    IF evt.kind = "DeviceDiscovered"
    THEN LET peripheral == Peripherals[evt.dev]
         IN  IF peripheral.local_name # None
             THEN LET hub_type == identify(peripheral)
                  IN  IF hub_type = "Panic"
                      THEN DiscoveredHub("Panic", << >>, "")
                      ELSE IF hub_type # None
                           THEN DiscoveredHub(hub_type, evt.dev, peripheral.local_name)
                           ELSE NoHub
             ELSE NoHub
    ELSE NoHub

\* What one loop iteration computes for evt: the Option<notification>, or
\* "Panic" in the kind field when identify panics
notification_for(evt, is_connected) ==
    IF evt.kind = "DeviceDiscovered"
    THEN LET peripheral == Peripherals[evt.dev]
         IN  IF peripheral.local_name # None /\ ~is_connected
             THEN LET hub_type == identify(peripheral)
                  IN  IF hub_type = "Panic"
                      THEN DiscoveredHub("Panic", << >>, "")
                      ELSE IF hub_type # None
                           THEN DiscoveredHub(hub_type, evt.dev, peripheral.local_name)
                           ELSE NoHub
             ELSE NoHub
    ELSE NoHub

\* event_rx.recv() returned Ok(evt): the body of the loop up to the send
ListenerEvent(evt) ==
    /\ listener.pc = "recv"
    /\ event_source = "open"
    /\ DiscoveryInputs < MaxDiscoveryInputs
    /\ LET n == notification_for(evt, evt.dev \in connected)
       IN  /\ listener' = IF n.hub_type = "Panic"
                          THEN [pc |-> "panicked", notification |-> NoHub]
                          ELSE IF n = NoHub
                               THEN [pc |-> "recv", notification |-> NoHub]
                               ELSE [pc |-> "send", notification |-> n]
           \* the panic unwinds through the guard of adapter.write()
           /\ adapter_lock' = IF n.hub_type = "Panic" THEN "poisoned"
                              ELSE adapter_lock
    /\ events' = events + 1
    /\ UNCHANGED << event_source, device_notification_channel, control_channel,
                    pu_internal, discovered_hubs, hub_notifications, waits, stops >>
    /\ UNCHANGED << identVars, registryVars, connected >>

\* if let Ok(evt) = event_rx.recv(): any event the adapter may report
ListenerRecv == \E evt \in CentralEvents : ListenerEvent(evt)

\* device_notification_sender.send(notif).await.expect(..)
ListenerSend ==
    /\ listener.pc = "send"
    /\ IF pu_internal = "stopped"
       THEN /\ listener' = [pc |-> "panicked", notification |-> NoHub]
            /\ UNCHANGED device_notification_channel
       ELSE /\ Len(device_notification_channel) < NotificationCapacity
            /\ device_notification_channel' =
                 Append(device_notification_channel, listener.notification)
            /\ listener' = [pc |-> "recv", notification |-> NoHub]
    /\ UNCHANGED << events, event_source, adapter_lock, control_channel,
                    pu_internal, discovered_hubs, hub_notifications, waits,
                    stops >>
    /\ UNCHANGED << identVars, registryVars, connected >>

\* The adapter drops its end of the event channel
EventSourceDisconnect ==
    /\ event_source = "open"
    /\ event_source' = "disconnected"
    /\ UNCHANGED << events, listener, adapter_lock, device_notification_channel,
                    control_channel, pu_internal, discovered_hubs,
                    hub_notifications, waits, stops >>
    /\ UNCHANGED << identVars, registryVars, connected >>

\* event_rx.recv() returned Err: panic!("Events channel disconnected!")
ListenerEventsDisconnected ==
    /\ listener.pc = "recv"
    /\ event_source = "disconnected"
    /\ listener' = [pc |-> "panicked", notification |-> NoHub]
    /\ UNCHANGED << events, event_source, adapter_lock, device_notification_channel,
                    control_channel, pu_internal, discovered_hubs,
                    hub_notifications, waits, stops >>
    /\ UNCHANGED << identVars, registryVars, connected >>

(***************************************************************************)
(* wait_for_hub / wait_for_hub_filter / wait_for_hub_filter_timeout        *)
(* A call is [pc, filter, rx, result, since]: rx is the oneshot receiver   *)
(* ("open", "sent" with the hub, "closed" once the sender was dropped),    *)
(* since is the length of the discovery log when the call was issued.      *)
(***************************************************************************)
WaitIds == 1..MaxDiscoveryInputs
NoResult == [tag |-> "none", hub |-> NoHub]
NoWait == [pc |-> "idle", filter |-> NoFilter, rx |-> [st |-> "none", hub |-> NoHub],
           result |-> NoResult, since |-> 0]

\* Option<HubNotificationParams>: response names the call whose sender it holds
NoParams == [response |-> 0, filter |-> NoFilter]
StopMessage == [type |-> "Stop", params |-> NoParams]
WaitForHubMessage(w, f) == [type |-> "WaitForHub", params |-> [response |-> w, filter |-> f]]

\* Dropping the oneshot senders of the calls in ws closes their receivers
DropSenders(wt, ws) ==
    [w \in WaitIds |->
        IF w \in ws /\ wt[w].pc = "waiting" /\ wt[w].rx.st = "open"
        THEN [wt[w] EXCEPT !.rx.st = "closed"]
        ELSE wt[w]]

\* notify.response.send(hub): Err, ignored, when the receiver is gone
SendHub(wt, w, hub) ==
    IF wt[w].pc = "waiting" /\ wt[w].rx.st = "open"
    THEN [wt EXCEPT ![w].rx = [st |-> "sent", hub |-> hub]]
    ELSE wt

\* The call sends WaitForHub(params) on control_tx and starts to wait
WaitStart(w) ==
    /\ waits[w].pc = "idle"
    /\ \A v \in WaitIds : v < w => waits[v].pc # "idle"
    /\ DiscoveryInputs < MaxDiscoveryInputs
    /\ \E f \in Filters :
         IF pu_internal = "stopped"
         THEN /\ waits' = [waits EXCEPT ![w] =
                    [NoWait EXCEPT !.pc = "done", !.filter = f,
                                   !.result = [tag |-> "ChannelClosed", hub |-> NoHub]]]
              /\ UNCHANGED control_channel
         ELSE /\ Len(control_channel) < ControlCapacity
              /\ control_channel' = Append(control_channel, WaitForHubMessage(w, f))
              /\ waits' = [waits EXCEPT ![w] =
                    [NoWait EXCEPT !.pc = "waiting", !.filter = f, !.rx.st = "open",
                                   !.since = Len(discovered_hubs)]]
    /\ UNCHANGED << events, event_source, listener, adapter_lock, device_notification_channel,
                    pu_internal, discovered_hubs, hub_notifications, stops >>
    /\ UNCHANGED << identVars, registryVars, connected >>

\* select!: Ok(msg) = rx
WaitReceive(w) ==
    /\ waits[w].pc = "waiting"
    /\ waits[w].rx.st = "sent"
    /\ waits' = [waits EXCEPT ![w].pc = "done",
                              ![w].result = [tag |-> "Ok", hub |-> waits[w].rx.hub]]
    /\ UNCHANGED << events, event_source, listener, adapter_lock, device_notification_channel,
                    control_channel, pu_internal, discovered_hubs, hub_notifications,
                    stops >>
    /\ UNCHANGED << identVars, registryVars, connected >>

\* WaitTimeout that also retracts the call's registration from the manager
WaitTimeout_retracts(w) ==
    /\ waits[w].pc = "waiting"
    /\ waits' = [waits EXCEPT ![w].pc = "done",
                              ![w].result = [tag |-> "Timeout", hub |-> NoHub]]
    /\ hub_notifications' = IF hub_notifications.response = w THEN NoParams
                            ELSE hub_notifications
    /\ UNCHANGED << events, event_source, listener, adapter_lock, device_notification_channel,
                    control_channel, pu_internal, discovered_hubs, stops >>
    /\ UNCHANGED << identVars, registryVars, connected >>

\* select!: _ = sleep => bail!("Timeout reached")
WaitTimeout(w) ==
    /\ waits[w].pc = "waiting"
    /\ waits' = [waits EXCEPT ![w].pc = "done",
                              ![w].result = [tag |-> "Timeout", hub |-> NoHub]]
    /\ UNCHANGED << events, event_source, listener, adapter_lock, device_notification_channel,
                    control_channel, pu_internal, discovered_hubs, hub_notifications,
                    stops >>
    /\ UNCHANGED << identVars, registryVars, connected >>

\* PoweredUp::stop
FacadeStop ==
    /\ DiscoveryInputs < MaxDiscoveryInputs
    /\ stops' = stops + 1
    /\ IF pu_internal = "stopped"
       THEN UNCHANGED control_channel
       ELSE /\ Len(control_channel) < ControlCapacity
            /\ control_channel' = Append(control_channel, StopMessage)
    /\ UNCHANGED << events, event_source, listener, adapter_lock, device_notification_channel,
                    pu_internal, discovered_hubs, hub_notifications, waits >>
    /\ UNCHANGED << identVars, registryVars, connected >>

(***************************************************************************)
(* Connection/Discovery Manager: PoweredUpInternal::run                    *)
(***************************************************************************)
\* let mut send_it = true; if let Some(filter) = &notify.filter { .. }
send_it(notify, hub) ==
    IF notify.filter.kind # None THEN matches(notify.filter, hub) ELSE TRUE

\* ManagerHubDiscovered that logs a hub only when its address is not yet in
\* the log
ManagerHubDiscovered_dedups ==
    /\ pu_internal = "running"
    /\ device_notification_channel # << >>
    /\ LET hub == Head(device_notification_channel)
           notify == hub_notifications
       IN  /\ device_notification_channel' = Tail(device_notification_channel)
           /\ IF notify # NoParams
              THEN IF send_it(notify, hub)
                   THEN /\ waits' = SendHub(waits, notify.response, hub)
                        /\ hub_notifications' = NoParams
                   ELSE /\ hub_notifications' = notify
                        /\ UNCHANGED waits
              ELSE UNCHANGED << hub_notifications, waits >>
           /\ discovered_hubs' =
                IF \E i \in 1..Len(discovered_hubs) : discovered_hubs[i].addr = hub.addr
                THEN discovered_hubs
                ELSE Append(discovered_hubs, hub)
    /\ UNCHANGED << events, event_source, listener, adapter_lock, control_channel,
                    pu_internal, stops >>
    /\ UNCHANGED << identVars, registryVars, connected >>

\* Some(msg) = device_notification_receiver.recv(): HubDiscovered(hub)
ManagerHubDiscovered ==
    /\ pu_internal = "running"
    /\ device_notification_channel # << >>
    /\ LET hub == Head(device_notification_channel)
           notify == hub_notifications
       IN  /\ device_notification_channel' = Tail(device_notification_channel)
           /\ IF notify # NoParams
              THEN IF send_it(notify, hub)
                   THEN /\ waits' = SendHub(waits, notify.response, hub)
                        /\ hub_notifications' = NoParams
                   ELSE /\ hub_notifications' = notify
                        /\ UNCHANGED waits
              ELSE UNCHANGED << hub_notifications, waits >>
           /\ discovered_hubs' = Append(discovered_hubs, hub)
    /\ UNCHANGED << events, event_source, listener, adapter_lock, control_channel,
                    pu_internal, stops >>
    /\ UNCHANGED << identVars, registryVars, connected >>

\* The senders held by the WaitForHub messages of a channel
QueuedWaits(ch) == { ch[i].params.response : i \in { j \in 1..Len(ch) : ch[j].type = "WaitForHub" } }

\* ManagerControl whose Stop also drops every hub of the registry (the
\* "TODO disconnect all hubs" of the match)
ManagerControl_disconnects_hubs ==
    /\ pu_internal = "running"
    /\ control_channel # << >>
    /\ LET msg == Head(control_channel)
       IN  IF msg.type = "Stop"
           THEN /\ pu_internal' = "stopped"
                /\ waits' = DropSenders(waits,
                               QueuedWaits(Tail(control_channel))
                                 \cup {hub_notifications.response})
                /\ control_channel' = << >>
                /\ device_notification_channel' = << >>
                /\ hubs' = << >>
                /\ connected' = {}
                /\ UNCHANGED << discovered_hubs, hub_notifications >>
           ELSE /\ hub_notifications' = msg.params
                /\ waits' = DropSenders(waits, {hub_notifications.response})
                /\ control_channel' = Tail(control_channel)
                /\ UNCHANGED << pu_internal, device_notification_channel,
                                discovered_hubs, hubs, connected >>
    /\ UNCHANGED << events, event_source, listener, adapter_lock, stops >>
    /\ UNCHANGED << identVars, command_channel, hub_manager, callbacks,
                    create, creates, controllers, devices, calls,
                    notifs, panic_cause, ever_disconnected, now_disconnected >>

\* Some(msg) = control_channel.recv()
ManagerControl ==
    /\ pu_internal = "running"
    /\ control_channel # << >>
    /\ LET msg == Head(control_channel)
       IN  IF msg.type = "Stop"
           THEN \* return Ok(()): the task ends and drops the worker and both
                \* receivers. The worker's fields can no longer be read or
                \* changed: they keep their last values here, and the oneshot
                \* senders that the slot and the queued messages held are dropped
                /\ pu_internal' = "stopped"
                /\ waits' = DropSenders(waits,
                               QueuedWaits(Tail(control_channel))
                                 \cup {hub_notifications.response})
                /\ control_channel' = << >>
                /\ device_notification_channel' = << >>
                /\ UNCHANGED << discovered_hubs, hub_notifications >>
           ELSE \* self.hub_notifications = Some(params): the old value is dropped
                /\ hub_notifications' = msg.params
                /\ waits' = DropSenders(waits, {hub_notifications.response})
                /\ control_channel' = Tail(control_channel)
                /\ UNCHANGED << pu_internal, device_notification_channel,
                                discovered_hubs >>
    /\ UNCHANGED << events, event_source, listener, adapter_lock, stops >>
    /\ UNCHANGED << identVars, registryVars, connected >>

(***************************************************************************)
(* Hub Registry: HubManager.  Replies are records of one shape:            *)
(* [tag, addr, port, port_id, hub_type, name].                             *)
(***************************************************************************)
Reply(tag, addr, port, port_id, hub_type, name) ==
    [tag |-> tag, addr |-> addr, port |-> port, port_id |-> port_id,
     hub_type |-> hub_type, name |-> name]
NoReply == Reply("none", << >>, None, -1, None, "")
ErrorReply(tag, addr) == Reply(tag, addr, None, -1, None, "")
\* Ok(HubController { addr, hub_type, name, hub_manager_tx })
ControllerReply(addr, hub_type, name) == Reply("HubController", addr, None, -1, hub_type, name)
\* Ok(PortController { device, port_id, port_type })
PortControllerReply(addr, port, port_id) == Reply("PortController", addr, port, port_id, None, "")
\* Err(anyhow!("Port {:?} does not exist on hub {}", port, addr))
UnknownPortReply(addr, port) == Reply("UnknownPort", addr, port, -1, None, "")
\* Err(anyhow!("No hub found for address {}", addr))
UnknownHubReply(addr) == ErrorReply("UnknownHub", addr)
OkReply == ErrorReply("Ok", << >>)
\* RecvError / SendError seen by a caller whose actor is gone
ChannelClosed == ErrorReply("ChannelClosed", << >>)

\* hubs::Port values the callers ask for
Ports == { "D", "Rgb" }

\* hubs::TechnicHub: HubProperties.port_map
TechnicHubPortMap ==
    ("A" :> 0) @@ ("B" :> 1) @@ ("C" :> 2) @@ ("D" :> 3) @@ ("HubLed" :> 50)
      @@ ("CurrentSensor" :> 59) @@ ("VoltageSensor" :> 60)
      @@ ("Accelerometer" :> 97) @@ ("GyroSensor" :> 98) @@ ("TiltSensor" :> 99)

\* Hub::port_map of a live entry
port_map(hub) == TechnicHubPortMap

\* The DiscoveredHub records create_hub is called with
CreateInputs ==
    { DiscoveredHub("TechnicMediumHub", AddrGame, "game"),
      DiscoveredHub("TechnicMediumHub", AddrCrane, "crane"),
      DiscoveredHub("Hub", AddrHub, "hub"),
      DiscoveredHub("Unknown", AddrGame, ""),
      DiscoveredHub("Unknown", AddrTv, ""),
      DiscoveredHub("Unknown", AddrShort, ""),
      DiscoveredHub("TechnicMediumHub", AddrGhost, "ghost") }

\* How far the hardware lets one connect attempt get
ConnectOutcomes == { "ConnectFailed", "DiscoverFailed", "CharacteristicMissing",
                     "SubscribeFailed", "InitFailed", "Ok" }

Message(type, addr, port, hub, id) ==
    [type |-> type, addr |-> addr, port |-> port, hub |-> hub, id |-> id]

\* HubManager::connect_to_hub: [reply, hubs, connected, callbacks]; the reply
\* tag "Panic" stands for a panic inside the function
\* ConnectStep that, on an error reply, also forgets the entry stored for
\* the address
ConnectStep_forgets_on_error(reply, h, c, cb) ==
    [reply |-> reply,
     hubs |-> IF reply.tag = "HubController" THEN h
              ELSE [a \in (DOMAIN h) \ {reply.addr} |-> h[a]],
     connected |-> c, callbacks |-> cb]

ConnectStep(reply, h, c, cb) == [reply |-> reply, hubs |-> h, connected |-> c, callbacks |-> cb]

connect_to_hub(hub, o) ==
    IF adapter_lock = "poisoned"
    THEN \* adapter.write().unwrap() panics on the PoisonError
         ConnectStep(Reply("Panic", hub.addr, None, -1, hub.hub_type, "poisoned"),
                     hubs, connected, callbacks)
    ELSE IF hub.addr \notin DOMAIN Peripherals
    THEN ConnectStep(ErrorReply("PeripheralNotFound", hub.addr), hubs, connected, callbacks)
    ELSE IF o = "ConnectFailed"
    THEN ConnectStep(ErrorReply("ConnectFailed", hub.addr), hubs, connected, callbacks)
    ELSE LET c == connected \cup {hub.addr}
             peripheral == Peripherals[hub.addr]
             ident == IF hub.hub_type = "Unknown" THEN identify(peripheral) ELSE None
             hub_type == IF hub.hub_type = "Unknown"
                         THEN (IF ident = None THEN "Unknown" ELSE ident)
                         ELSE hub.hub_type
             name == IF hub.hub_type = "Unknown"
                     THEN (IF peripheral.local_name = None THEN ""
                           ELSE peripheral.local_name)
                     ELSE hub.name
             cb == callbacks \cup {hub.addr}
         IN  IF o = "DiscoverFailed"
             THEN ConnectStep(ErrorReply("ConnectFailed", hub.addr), hubs, c, callbacks)
             ELSE IF ident = "Panic"
             THEN \* manufacturer_id[1] panics inside identify
                  ConnectStep(Reply("Panic", hub.addr, None, -1, hub_type, "identify"),
                              hubs, c, callbacks)
             ELSE IF o = "CharacteristicMissing"
             THEN ConnectStep(ErrorReply("CharacteristicMissing", hub.addr), hubs, c, cb)
             ELSE IF o = "SubscribeFailed"
             THEN ConnectStep(ErrorReply("ConnectFailed", hub.addr), hubs, c, cb)
             ELSE IF hub_type # "TechnicMediumHub"
             THEN \* _ => unimplemented!()
                  ConnectStep(Reply("Panic", hub.addr, None, -1, hub_type,
                                    IF hub_type = "Unknown"
                                    THEN "unimplemented: kind still unknown"
                                    ELSE "unimplemented: identified kind"),
                              hubs, c, cb)
             ELSE IF o = "InitFailed"
             THEN ConnectStep(ErrorReply("ConnectFailed", hub.addr), hubs, c, cb)
             ELSE ConnectStep(ControllerReply(hub.addr, hub_type, name),
                              (hub.addr :> [hub_type |-> hub_type]) @@ hubs, c, cb)

\* get_port without the port_map.get(&port) check: port id 0 by default
get_port_unchecked(addr, port) ==
    IF addr \in DOMAIN hubs
    THEN IF port \in DOMAIN port_map(hubs[addr])
         THEN PortControllerReply(addr, port, port_map(hubs[addr])[port])
         ELSE PortControllerReply(addr, port, 0)
    ELSE UnknownHubReply(addr)

\* GetPort(addr, port, response): the value sent on response
get_port(addr, port) ==
    IF addr \in DOMAIN hubs
    THEN IF port \in DOMAIN port_map(hubs[addr])
         THEN PortControllerReply(addr, port, port_map(hubs[addr])[port])
         ELSE UnknownPortReply(addr, port)
    ELSE UnknownHubReply(addr)

\* send_to_hub without the hubs.get(&addr) check
send_to_hub_unchecked(addr, ok) ==
    IF ok THEN OkReply ELSE ErrorReply("SendFailed", addr)

\* SendToHub(addr, msg, response): the value sent on response; ok is the
\* outcome of hub.send(msg)
send_to_hub(addr, ok) ==
    IF addr \in DOMAIN hubs
    THEN IF ok THEN OkReply ELSE ErrorReply("SendFailed", addr)
    ELSE UnknownHubReply(addr)

\* hubs.clear() in the place of hubs.remove(&addr)
Remove_all(h, addr) == << >>

\* hubs.remove(&addr)
Remove(h, addr) == [a \in (DOMAIN h) \ {addr} |-> h[a]]

\* hub.disconnect() of the hub at addr: the links that are up afterwards.
\* The primitive answers Ok when it has taken the link down and Err when it
\* has not
hub_disconnect(addr, ok) == IF ok THEN connected \ {addr} ELSE connected

\* disconnect with hubs.get in place of hubs.remove: the entry stays
disconnect_keeps_entry(addr, ok) ==
    IF addr \in DOMAIN hubs
    THEN IF ok
         THEN [reply |-> OkReply, hubs |-> hubs,
               connected |-> hub_disconnect(addr, TRUE)]
         ELSE [reply |-> ErrorReply("DisconnectFailed", addr),
               hubs |-> hubs, connected |-> hub_disconnect(addr, FALSE)]
    ELSE [reply |-> ErrorReply("HubNotRegistered", addr), hubs |-> hubs,
          connected |-> connected]

\* disconnect that forgets the entry only when hub.disconnect() succeeded
disconnect_removes_on_success(addr, ok) ==
    IF addr \in DOMAIN hubs
    THEN IF ok
         THEN [reply |-> OkReply, hubs |-> Remove(hubs, addr),
               connected |-> hub_disconnect(addr, TRUE)]
         ELSE [reply |-> ErrorReply("DisconnectFailed", addr),
               hubs |-> hubs, connected |-> hub_disconnect(addr, FALSE)]
    ELSE [reply |-> ErrorReply("HubNotRegistered", addr), hubs |-> hubs,
          connected |-> connected]

\* HubManager::disconnect: [reply, hubs, connected]; ok is the outcome of
\* hub.disconnect(), which is called for a live entry only
disconnect(addr, ok) ==
    IF addr \in DOMAIN hubs
    THEN IF ok
         THEN [reply |-> OkReply, hubs |-> Remove(hubs, addr),
               connected |-> hub_disconnect(addr, TRUE)]
         ELSE [reply |-> ErrorReply("DisconnectFailed", addr),
               hubs |-> Remove(hubs, addr),
               connected |-> hub_disconnect(addr, FALSE)]
    ELSE [reply |-> ErrorReply("HubNotRegistered", addr), hubs |-> hubs,
          connected |-> connected]

(***************************************************************************)
(* Callers of the Hub Registry.                                            *)
(* create is the create_hub call: [pc, idx, hub, oneshot, reply, result,   *)
(* sent, failures, sleeps]; oneshot names the reply channel of the attempt *)
(* in flight (0: none), sent / failures / sleeps count the call's          *)
(* requests, its Err replies and its 3-second delays.                      *)
(* calls[id] is a HubController::port / ::disconnect call or a device's    *)
(* SendToHub: [op, addr, port, st, reply, result] with st "unused",        *)
(* "await" (rx.await), "dropped" (the future and its receiver were         *)
(* dropped) or "done"; reply is what the oneshot holds, result the tag of  *)
(* what the call returned.                                                 *)
(***************************************************************************)
CallIds == 1..MaxRequests
NoCall == [op |-> None, addr |-> << >>, port |-> None, st |-> "unused",
           reply |-> NoReply, result |-> "none"]
NoCreate == [pc |-> "idle", idx |-> 0, hub |-> NoHub, oneshot |-> 0,
             reply |-> NoReply, result |-> NoReply,
             sent |-> 0, failures |-> 0, sleeps |-> 0]
\* The requests and notifications issued so far
Requests == creates + notifs + Cardinality({ id \in CallIds : calls[id].st # "unused" })

\* pub async fn create_hub(&self, hub: DiscoveredHub)
CreateStart ==
    /\ create.pc \in {"idle", "done"}
    /\ Requests < MaxRequests
    /\ creates' = creates + 1
    /\ \E hub \in CreateInputs :
         create' = [NoCreate EXCEPT !.pc = "send", !.idx = 1, !.hub = hub]
    /\ UNCHANGED << command_channel, hub_manager, hubs, callbacks,
                    controllers, devices, calls, notifs, panic_cause >>
    /\ UNCHANGED << identVars, discoveryVars, connected, ever_disconnected, now_disconnected >>

\* let (resp_tx, resp_rx) = oneshot::channel(); hub_manager_tx.send(..).await?
CreateSend ==
    /\ create.pc = "send"
    /\ IF hub_manager = "panicked"
       THEN /\ create' = [create EXCEPT !.pc = "done", !.result = ChannelClosed]
            /\ UNCHANGED command_channel
       ELSE /\ Len(command_channel) < CommandCapacity
            /\ command_channel' = Append(command_channel,
                 Message("ConnectToHub", create.hub.addr, None, create.hub, create.sent + 1))
            /\ create' = [create EXCEPT !.pc = "await", !.oneshot = create.sent + 1,
                                        !.reply = NoReply, !.sent = @ + 1]
    /\ UNCHANGED << hub_manager, hubs, callbacks, creates, controllers, devices,
                    calls, notifs, panic_cause >>
    /\ UNCHANGED << identVars, discoveryVars, connected, ever_disconnected, now_disconnected >>

\* create_sleep with the loop written 1..retries (exclusive): one try less
create_sleep_one_try_less(c) ==
    IF c.idx < Retries - 1
    THEN [c EXCEPT !.pc = "send", !.idx = @ + 1, !.sleeps = @ + 1, !.oneshot = 0,
                   !.reply = NoReply]
    ELSE [c EXCEPT !.pc = "done", !.sleeps = @ + 1, !.oneshot = 0, !.reply = NoReply,
                   !.result = Reply("UnableToConnect", c.hub.addr, None, Retries, None, "")]

\* sleep(Duration::from_secs(3)).await; then the next idx, or after the last
\* one the aggregate Err "Unable to connect to {addr} after {retries} tries"
\* (port_id holds retries)
create_sleep(c) ==
    IF c.idx < Retries
    THEN [c EXCEPT !.pc = "send", !.idx = @ + 1, !.sleeps = @ + 1, !.oneshot = 0,
                   !.reply = NoReply]
    ELSE [c EXCEPT !.pc = "done", !.sleeps = @ + 1, !.oneshot = 0, !.reply = NoReply,
                   !.result = Reply("UnableToConnect", c.hub.addr, None, Retries, None, "")]

\* match resp_rx.await? { Ok(controller) => return Ok(controller),
\*                        Err(e) => warn!("{}", e) }
CreateRecv ==
    /\ create.pc = "await"
    /\ IF create.reply # NoReply
       THEN IF create.reply.tag = "HubController"
            THEN /\ create' = [create EXCEPT !.pc = "done", !.oneshot = 0,
                                             !.reply = NoReply, !.result = create.reply]
                 /\ controllers' = controllers \cup {create.reply.addr}
            ELSE /\ create' = [create EXCEPT !.pc = "sleep", !.failures = @ + 1,
                                             !.oneshot = 0, !.reply = NoReply]
                 /\ UNCHANGED controllers
       ELSE /\ hub_manager = "panicked"
            /\ create' = [create EXCEPT !.pc = "done", !.oneshot = 0,
                                        !.result = ChannelClosed]
            /\ UNCHANGED controllers
    /\ UNCHANGED << command_channel, hub_manager, hubs, callbacks, creates,
                    devices, calls, notifs, panic_cause >>
    /\ UNCHANGED << identVars, discoveryVars, connected, ever_disconnected, now_disconnected >>

\* sleep(Duration::from_secs(3)).await is over: the next attempt, or the
\* aggregate error after the last one
CreateSleep ==
    /\ create.pc = "sleep"
    /\ create' = create_sleep(create)
    /\ UNCHANGED << command_channel, hub_manager, hubs, callbacks, creates,
                    controllers, devices, calls, notifs, panic_cause >>
    /\ UNCHANGED << identVars, discoveryVars, connected, ever_disconnected, now_disconnected >>

\* HubController::port, HubController::disconnect, a device's SendToHub:
\* hub_manager_tx.send(..).await?
CallStart(id) ==
    /\ calls[id].st = "unused"
    /\ \A j \in CallIds : j < id => calls[j].st # "unused"
    /\ Requests < MaxRequests
    /\ \E op \in {"GetPort", "SendToHub", "Disconnect"}, addr \in controllers, port \in Ports :
         /\ op = "SendToHub" => addr \in devices
         /\ op # "GetPort" => port = "D"
         /\ LET c == [NoCall EXCEPT !.op = op, !.addr = addr,
                                    !.port = IF op = "GetPort" THEN port ELSE None]
            IN  IF hub_manager = "panicked"
                THEN /\ calls' = [calls EXCEPT ![id] =
                           [c EXCEPT !.st = "done", !.result = ChannelClosed.tag]]
                     /\ UNCHANGED command_channel
                ELSE /\ Len(command_channel) < CommandCapacity
                     /\ command_channel' = Append(command_channel,
                           Message(op, addr, c.port, NoHub, id))
                     /\ calls' = [calls EXCEPT ![id] = [c EXCEPT !.st = "await"]]
    /\ UNCHANGED << hub_manager, hubs, callbacks, create, creates,
                    controllers, devices, notifs, panic_cause >>
    /\ UNCHANGED << identVars, discoveryVars, connected, ever_disconnected, now_disconnected >>

\* rx.await?
CallRecv(id) ==
    /\ calls[id].st = "await"
    /\ IF calls[id].reply # NoReply
       THEN /\ calls' = [calls EXCEPT ![id].st = "done", ![id].reply = NoReply,
                                      ![id].result = calls[id].reply.tag]
            /\ devices' = IF calls[id].reply.tag = "PortController"
                          THEN devices \cup {calls[id].addr} ELSE devices
       ELSE /\ hub_manager = "panicked"
            /\ calls' = [calls EXCEPT ![id].st = "done", ![id].result = ChannelClosed.tag]
            /\ UNCHANGED devices
    /\ UNCHANGED << command_channel, hub_manager, hubs, callbacks, create, creates,
                    controllers, notifs, panic_cause >>
    /\ UNCHANGED << identVars, discoveryVars, connected, ever_disconnected, now_disconnected >>

\* The caller drops the future of the call while it awaits the reply
CallDrop(id) ==
    /\ calls[id].st = "await"
    /\ calls[id].reply = NoReply
    /\ hub_manager = "running"
    /\ calls' = [calls EXCEPT ![id].st = "dropped"]
    /\ UNCHANGED << command_channel, hub_manager, hubs, callbacks, create, creates,
                    controllers, devices, notifs, panic_cause >>
    /\ UNCHANGED << identVars, discoveryVars, connected, ever_disconnected, now_disconnected >>

\* on_notification that gives the buffer up when the channel is full
\* (try_send in place of blocking_send)
HardwareBuffer_drops_when_full(addr, parsed) ==
    /\ addr \in callbacks
    /\ addr \in connected
    /\ notifs' = notifs + 1
    /\ IF parsed /\ hub_manager = "running" /\ Len(command_channel) < CommandCapacity
       THEN command_channel' = Append(command_channel,
                Message("Notification", addr, None, NoHub, notifs + 1))
       ELSE UNCHANGED command_channel
    /\ UNCHANGED << hub_manager, hubs, callbacks, create, creates,
                    controllers, devices, calls, panic_cause >>
    /\ UNCHANGED << identVars, discoveryVars, connected, ever_disconnected, now_disconnected >>

\* The on_notification callback of the hub at addr, on the hardware thread,
\* for one raw buffer: NotificationMessage::parse (parsed: did it succeed),
\* then notif_tx.blocking_send(notif).unwrap().  The hardware delivers
\* buffers only while the link to the peripheral is up.  The message carries
\* the number of the buffer in place of its content
HardwareBuffer(addr, parsed) ==
    /\ addr \in callbacks
    /\ addr \in connected
    /\ notifs' = notifs + 1
    /\ IF parsed /\ hub_manager = "running"
       THEN /\ Len(command_channel) < CommandCapacity
            /\ command_channel' = Append(command_channel,
                  Message("Notification", addr, None, NoHub, notifs + 1))
       ELSE UNCHANGED command_channel
    /\ UNCHANGED << hub_manager, hubs, callbacks, create, creates,
                    controllers, devices, calls, panic_cause >>
    /\ UNCHANGED << identVars, discoveryVars, connected, ever_disconnected, now_disconnected >>

\* The hardware delivers a raw buffer to the callback of a connected hub
HardwareNotification ==
    /\ Requests < MaxRequests
    /\ \E addr \in callbacks, parsed \in BOOLEAN : HardwareBuffer(addr, parsed)

\* The same, for as many buffers as it takes to fill the request channel
HardwareBurst ==
    /\ notifs < MaxBurst
    /\ \E addr \in callbacks, parsed \in BOOLEAN : HardwareBuffer(addr, parsed)

(***************************************************************************)
(* Hub Registry loop: HubManager::run.  One action per message kind; each  *)
(* is the whole match arm, the reply's send(..).unwrap() included.         *)
(***************************************************************************)
\* The task panics: command_rx and hubs are dropped with it
RegistryPanics(cause) ==
    /\ hub_manager' = "panicked"
    /\ panic_cause' = cause
    /\ command_channel' = << >>
    /\ hubs' = << >>

\* Is the receiver of a call's oneshot still there?
CallListens(id) == calls[id].st = "await"
CreateListens(oneshot) == create.pc = "await" /\ create.oneshot = oneshot

\* ConnectToHub(hub, response) => response.send(connect_to_hub(..)).unwrap()
HubManagerConnectToHub ==
    /\ hub_manager = "running"
    /\ command_channel # << >>
    /\ Head(command_channel).type = "ConnectToHub"
    /\ LET msg == Head(command_channel)
       IN  \E o \in ConnectOutcomes :
             LET r == connect_to_hub(msg.hub, o)
             IN  /\ connected' = r.connected
                 /\ callbacks' = r.callbacks
                 /\ now_disconnected' = IF r.reply.tag = "HubController"
                                        THEN now_disconnected \ {msg.addr}
                                        ELSE now_disconnected
                 /\ IF r.reply.tag = "Panic"
                    THEN /\ RegistryPanics(r.reply.name)
                         /\ UNCHANGED create
                    ELSE IF CreateListens(msg.id)
                    THEN /\ hubs' = r.hubs
                         /\ create' = [create EXCEPT !.reply = r.reply]
                         /\ command_channel' = Tail(command_channel)
                         /\ UNCHANGED << hub_manager, panic_cause >>
                    ELSE /\ RegistryPanics("send")
                         /\ UNCHANGED create
    /\ UNCHANGED << creates, controllers, devices, calls, notifs, ever_disconnected >>
    /\ UNCHANGED << identVars, discoveryVars >>

\* Notification(addr, msg) => println!(..)
HubManagerNotification ==
    /\ hub_manager = "running"
    /\ command_channel # << >>
    /\ Head(command_channel).type = "Notification"
    /\ command_channel' = Tail(command_channel)
    /\ UNCHANGED << hub_manager, panic_cause, hubs, callbacks, create, creates,
                    controllers, devices, calls, notifs >>
    /\ UNCHANGED << identVars, discoveryVars, connected, ever_disconnected, now_disconnected >>

\* response.send(reply).unwrap() for a call's request, with the new hubs map
Respond(msg, reply, new_hubs) ==
    IF CallListens(msg.id)
    THEN /\ calls' = [calls EXCEPT ![msg.id].reply = reply]
         /\ hubs' = new_hubs
         /\ command_channel' = Tail(command_channel)
         /\ UNCHANGED << hub_manager, panic_cause >>
    ELSE /\ RegistryPanics("send")
         /\ UNCHANGED calls

\* GetPort(addr, port, response)
HubManagerGetPort ==
    /\ hub_manager = "running"
    /\ command_channel # << >>
    /\ Head(command_channel).type = "GetPort"
    /\ LET msg == Head(command_channel)
       IN  Respond(msg, get_port(msg.addr, msg.port), hubs)
    /\ UNCHANGED << callbacks, create, creates, controllers, devices, notifs >>
    /\ UNCHANGED << identVars, discoveryVars, connected, ever_disconnected, now_disconnected >>

\* SendToHub(addr, msg, response)
HubManagerSendToHub ==
    /\ hub_manager = "running"
    /\ command_channel # << >>
    /\ Head(command_channel).type = "SendToHub"
    /\ LET msg == Head(command_channel)
       IN  \E ok \in BOOLEAN : Respond(msg, send_to_hub(msg.addr, ok), hubs)
    /\ UNCHANGED << callbacks, create, creates, controllers, devices, notifs >>
    /\ UNCHANGED << identVars, discoveryVars, connected, ever_disconnected, now_disconnected >>

\* The Disconnect arm when hub.disconnect(), if it is called, has outcome ok
HubManagerDisconnectOutcome(ok) ==
    /\ hub_manager = "running"
    /\ command_channel # << >>
    /\ Head(command_channel).type = "Disconnect"
    /\ LET msg == Head(command_channel)
           r == disconnect(msg.addr, ok)
           answered == r.reply = OkReply /\ CallListens(msg.id)
       IN  /\ Respond(msg, r.reply, r.hubs)
           /\ connected' = r.connected
           /\ ever_disconnected' = IF answered THEN ever_disconnected \cup {msg.addr}
                                   ELSE ever_disconnected
           /\ now_disconnected' = IF answered THEN now_disconnected \cup {msg.addr}
                                  ELSE now_disconnected
    /\ UNCHANGED << callbacks, create, creates, controllers, devices, notifs >>
    /\ UNCHANGED << identVars, discoveryVars >>

\* Disconnect(addr, response) => response.send(disconnect(addr, &mut hubs)).unwrap()
HubManagerDisconnect == \E ok \in BOOLEAN : HubManagerDisconnectOutcome(ok)

(***************************************************************************)
(* Specifications                                                          *)
(***************************************************************************)
\* PoweredUpInternal::new and the start of the listener
InitDiscoverySide ==
    /\ events = 0
    /\ event_source = "open"
    /\ listener = [pc |-> "recv", notification |-> NoHub]
    /\ adapter_lock = "ok"
    /\ device_notification_channel = << >>
    /\ control_channel = << >>
    /\ pu_internal = "running"
    /\ discovered_hubs = << >>
    /\ hub_notifications = NoParams
    /\ waits = [w \in WaitIds |-> NoWait]
    /\ stops = 0

\* HubManager::run starts with an empty map; nothing was requested yet
InitRegistrySide ==
    /\ command_channel = << >>
    /\ hub_manager = "running"
    /\ hubs = << >>
    /\ callbacks = {}
    /\ create = NoCreate
    /\ creates = 0
    /\ controllers = {}
    /\ devices = {}
    /\ calls = [id \in CallIds |-> NoCall]
    /\ notifs = 0
    /\ panic_cause = None
    /\ ever_disconnected = {}
    /\ now_disconnected = {}

InitActors ==
    /\ InitDiscoverySide
    /\ InitRegistrySide

\* No peripheral is connected when the actors start
InitRest ==
    /\ InitActors
    /\ connected = {}

\* PoweredUp::with_device + run: both actors and the listener are started
Init ==
    /\ props = NoProps
    /\ identified = "NotCalled"
    /\ InitRest

NextDiscovery ==
    \/ ListenerRecv
    \/ ListenerSend
    \/ EventSourceDisconnect
    \/ ListenerEventsDisconnected
    \/ \E w \in WaitIds : WaitStart(w)
    \/ \E w \in WaitIds : WaitReceive(w)
    \/ \E w \in WaitIds : WaitTimeout(w)
    \/ FacadeStop
    \/ ManagerHubDiscovered
    \/ ManagerControl

NextRegistry ==
    \/ CreateStart
    \/ CreateSend
    \/ CreateRecv
    \/ CreateSleep
    \/ \E id \in CallIds : CallStart(id)
    \/ \E id \in CallIds : CallRecv(id)
    \/ \E id \in CallIds : CallDrop(id)
    \/ HardwareNotification
    \/ HubManagerConnectToHub
    \/ HubManagerNotification
    \/ HubManagerGetPort
    \/ HubManagerSendToHub
    \/ HubManagerDisconnect

Next == NextDiscovery \/ NextRegistry

Spec == Init /\ [][Next]_vars

\* The discovery side alone: listener, manager, wait_for_hub* and stop
SpecDiscovery == Init /\ [][NextDiscovery]_vars

\* The listener has panicked inside identify on its first event, a
\* DeviceDiscovered of "short", holding the guard of adapter.write()
InitPoisoned ==
    /\ props = NoProps
    /\ identified = "NotCalled"
    /\ events = 1
    /\ event_source = "open"
    /\ listener = [pc |-> "panicked", notification |-> NoHub]
    /\ adapter_lock = "poisoned"
    /\ device_notification_channel = << >>
    /\ control_channel = << >>
    /\ pu_internal = "running"
    /\ discovered_hubs = << >>
    /\ hub_notifications = NoParams
    /\ waits = [w \in WaitIds |-> NoWait]
    /\ stops = 0
    /\ InitRegistrySide
    /\ connected = {}

\* The registry side alone: HubManager, create_hub, controllers, callbacks,
\* with the adapter's lock sound or poisoned by the listener
SpecRegistry == (Init \/ InitPoisoned) /\ [][NextRegistry]_vars

\* identify applied to every input of IdentifyInputs
InitIdentify ==
    /\ props \in IdentifyInputs
    /\ identified = "NotCalled"
    /\ InitRest

SpecIdentify == InitIdentify /\ [][IdentifyCall]_vars

\* The state in which create_hub has returned the HubController of "game" at
\* its first attempt: the entry is stored, the link is up and the callback
\* is installed
InitConnected ==
    /\ props = NoProps
    /\ identified = "NotCalled"
    /\ InitDiscoverySide
    /\ command_channel = << >>
    /\ hub_manager = "running"
    /\ hubs = (AddrGame :> [hub_type |-> "TechnicMediumHub"])
    /\ connected = {AddrGame}
    /\ callbacks = {AddrGame}
    /\ create = [NoCreate EXCEPT
                    !.pc = "done", !.idx = 1, !.sent = 1,
                    !.hub = DiscoveredHub("TechnicMediumHub", AddrGame, "game"),
                    !.result = ControllerReply(AddrGame, "TechnicMediumHub", "game")]
    /\ creates = 1
    /\ controllers = {AddrGame}
    /\ devices = {}
    /\ calls = [id \in CallIds |-> NoCall]
    /\ notifs = 0
    /\ panic_cause = None
    /\ ever_disconnected = {}
    /\ now_disconnected = {}

\* The callback of the connected hub and the registry's Notification arm
NextBackpressure ==
    \/ HardwareBurst
    \/ HubManagerNotification

\* A connected hub floods the registry's request channel
SpecBackpressure == InitConnected /\ [][NextBackpressure]_vars

\* The BLE links the discovery side may find up: none, or the one to "game"
\* that a connect_to_hub has brought up (peripheral.connect(), lib.rs:559)
LinksUp == { {}, {AddrGame} }

InitListener ==
    /\ props = NoProps
    /\ identified = "NotCalled"
    /\ InitActors
    /\ connected \in LinksUp

\* The discovery side with a peripheral already connected or not
SpecListener == InitListener /\ [][NextDiscovery]_vars

\* The calls made on the facade and on the handles it gave out
StopInputs == DiscoveryInputs + Requests

\* stop and wait_for_hub* calls next to the requests of a connected hub
NextStop ==
    \/ StopInputs < MaxStopInputs /\ FacadeStop
    \/ ManagerControl
    \/ StopInputs < MaxStopInputs /\ \E w \in WaitIds : WaitStart(w)
    \/ \E w \in WaitIds : WaitTimeout(w)
    \/ StopInputs < MaxStopInputs /\ CreateStart
    \/ CreateSend
    \/ CreateRecv
    \/ CreateSleep
    \/ StopInputs < MaxStopInputs /\ \E id \in CallIds : CallStart(id)
    \/ \E id \in CallIds : CallRecv(id)
    \/ HubManagerConnectToHub
    \/ HubManagerGetPort
    \/ HubManagerSendToHub
    \/ HubManagerDisconnect

\* The facade's stop with both actors at work
SpecStop == InitConnected /\ [][NextStop]_vars

(***************************************************************************)
(* Claims about the Hub Registry (checked under SpecRegistry)              *)
(***************************************************************************)
\* The registry answers call id in this step
Answered(id) ==
    /\ calls[id].st = "await"
    /\ calls[id].reply = NoReply
    /\ calls'[id].reply # NoReply

\* C1 as stated: once Disconnect(A) has been answered with success, every
\* GetPort(A, port) and SendToHub(A, msg) the registry answers afterwards
\* gets the "No hub found for address" error.
C1_UnknownHubEverAfterDisconnect ==
    [][\A id \in CallIds :
         (Answered(id) /\ calls[id].op \in {"GetPort", "SendToHub"}
            /\ calls[id].addr \in ever_disconnected)
         => calls'[id].reply = UnknownHubReply(calls[id].addr)]_vars

\* C1 amended: once Disconnect(A) has been answered with success, every
\* GetPort(A, port) and SendToHub(A, msg) the registry answers afterwards and
\* before a later ConnectToHub for A succeeds gets the "No hub found for
\* address" error.
C1_UnknownHubAfterDisconnect ==
    [][\A id \in CallIds :
         (Answered(id) /\ calls[id].op \in {"GetPort", "SendToHub"}
            /\ calls[id].addr \in now_disconnected)
         => calls'[id].reply = UnknownHubReply(calls[id].addr)]_vars

\* A GetPort answered UnknownHub for an address whose Disconnect succeeded
\* and that was not connected again
C1_Witness ==
    \E id \in CallIds :
        /\ calls[id].op = "GetPort"
        /\ calls[id].addr \in now_disconnected
        /\ calls[id].reply = UnknownHubReply(calls[id].addr)
        /\ \E d \in CallIds : calls[d].op = "Disconnect" /\ calls[d].reply = OkReply

\* C2: a GetPort(A, port) is answered UnknownHub when A has no live entry,
\* UnknownPort naming port and A when port is no key of the hub's port map,
\* and otherwise a PortController with port_type = port and port_id = the
\* port map's value for port; no PortController exists for an absent port.
C2_GetPortReply ==
    [][\A id \in CallIds :
         /\ (Answered(id) /\ calls[id].op = "GetPort") =>
              LET a == calls[id].addr
                  p == calls[id].port
                  r == calls'[id].reply
              IN  IF a \notin DOMAIN hubs
                  THEN r.tag = "UnknownHub" /\ r.addr = a
                  ELSE IF p \notin DOMAIN port_map(hubs[a])
                       THEN r.tag = "UnknownPort" /\ r.port = p /\ r.addr = a
                       ELSE /\ r.tag = "PortController"
                            /\ r.port = p
                            /\ r.port_id = port_map(hubs[a])[p]
         /\ calls'[id].reply.tag = "PortController"
              => calls'[id].reply.port \in DOMAIN TechnicHubPortMap]_vars

\* One GetPort answered with the PortController of port D (id 3) and another,
\* on the same live hub, answered UnknownPort
C2_Witness ==
    \E i, j \in CallIds :
        /\ calls[i].reply = PortControllerReply(AddrGame, "D", 3)
        /\ calls[j].reply = UnknownPortReply(AddrGame, "Rgb")
        /\ AddrGame \in DOMAIN hubs

\* The ConnectToHub requests of the channel
ConnectRequests ==
    { i \in 1..Len(command_channel) : command_channel[i].type = "ConnectToHub" }

\* C3: create_hub has one ConnectToHub in flight at a time, on the reply
\* channel of the current attempt; it returns the aggregate error, naming the
\* address and 10 tries, after exactly 10 requests that all failed; it
\* returns the k-th attempt's HubController after exactly k requests, k - 1
\* failures and k - 1 delays of 3 seconds.
C3_CreateHubRetries ==
    /\ Cardinality(ConnectRequests) <= 1
    /\ \A i \in ConnectRequests :
         /\ create.pc = "await"
         /\ command_channel[i].id = create.oneshot
         /\ command_channel[i].hub = create.hub
         /\ create.oneshot = create.sent
    /\ create.pc \in {"send", "await"} =>
         /\ create.idx \in 1..Retries
         /\ create.failures = create.idx - 1
         /\ create.sleeps = create.failures
         /\ create.sent = IF create.pc = "send" THEN create.idx - 1 ELSE create.idx
    /\ create.pc = "sleep" =>
         /\ create.idx \in 1..Retries
         /\ create.failures = create.idx
         /\ create.sleeps = create.failures - 1
         /\ create.sent = create.idx
    /\ create.pc = "done" =>
         /\ create.result.tag \in {"UnableToConnect", "HubController", "ChannelClosed"}
         /\ create.result.tag = "UnableToConnect" =>
              /\ create.sent = Retries
              /\ create.failures = Retries
              /\ create.result.addr = create.hub.addr
              /\ create.result.port_id = Retries
         /\ create.result.tag = "HubController" =>
              /\ create.sent = create.failures + 1
              /\ create.sent <= Retries
              /\ create.sleeps = create.failures
              /\ create.result.addr = create.hub.addr
         /\ create.result.tag = "ChannelClosed" => hub_manager = "panicked"
         /\ create.failures = Retries => create.result.tag = "UnableToConnect"

\* create_hub returned the HubController of its 10th attempt, after 9 failures
C3_Witness ==
    /\ create.pc = "done"
    /\ create.result.tag = "HubController"
    /\ create.failures = Retries - 1
    /\ create.sleeps = Retries - 1
    /\ create.sent = Retries

\* C10 (with every panic inside connect_to_hub set aside): the registry's
\* loop never ends because a request failed or because the caller of a
\* request had dropped its reply receiver.
C10_LoopSurvivesRequests ==
    hub_manager = "panicked" =>
        panic_cause \in { "unimplemented: identified kind",
                          "unimplemented: kind still unknown", "identify",
                          "poisoned" }

(***************************************************************************)
(* Claims about discovery and wait_for_hub* (checked under SpecDiscovery)  *)
(***************************************************************************)
\* The manager processes HubDiscovered(Head(device_notification_channel))
HubDiscoveredStep ==
    /\ pu_internal = "running"
    /\ device_notification_channel # << >>
    /\ discovered_hubs' = Append(discovered_hubs, Head(device_notification_channel))

\* The manager processes the WaitForHub at the head of the control channel
RegistrationStep ==
    /\ pu_internal = "running"
    /\ control_channel # << >>
    /\ Head(control_channel).type = "WaitForHub"
    /\ control_channel' = Tail(control_channel)
    /\ pu_internal' = "running"

\* Does the optional filter f accept hub?  Written out from the claim
Accepts(f, hub) ==
    \/ f.kind = None
    \/ f.kind = "Name" /\ hub.name = f.name
    \/ f.kind = "Addr" /\ BDAddr_to_string(hub.addr) = f.addr

\* The manager has taken call w's WaitForHub message off the control channel
Registered(w) ==
    /\ waits[w].pc # "idle"
    /\ w \notin QueuedWaits(control_channel)

\* The hubs the manager has logged since call w was issued
LoggedSince(w) ==
    { i \in 1..Len(discovered_hubs) : i > waits[w].since }

\* C4: a wait_for_hub_filter(ByAddress(A)) issued while the hub at A is being
\* discovered receives the listener's record in every interleaving: once the
\* manager has processed both the registration and the HubDiscovered for A,
\* the record is on the waiting call's reply channel.
C4_ConcurrentWaitReceives ==
    \A w \in WaitIds :
        ( /\ waits[w].pc = "waiting"
          /\ waits[w].filter = AddrFilter(GameAddrString)
          /\ Registered(w)
          /\ pu_internal = "running"
          /\ stops = 0
          /\ \A v \in WaitIds \ {w} : waits[v].pc = "idle"
          /\ \E i \in LoggedSince(w) : discovered_hubs[i].addr = AddrGame )
        => /\ waits[w].rx.st = "sent"
           /\ waits[w].rx.hub = DiscoveredHub("TechnicMediumHub", AddrGame, "game")

\* C5: on a HubDiscovered(hub) with a PendingWait stored, a PendingWait
\* without filter or whose filter matches gets hub on its reply channel and
\* the slot is emptied; otherwise nothing is sent and the PendingWait stays
\* as it is.  No call ever holds a hub that its filter does not match.
C5_PendingWaitOnDiscovery ==
    [][ /\ (HubDiscoveredStep /\ hub_notifications # NoParams) =>
             LET hub == Head(device_notification_channel)
                 w == hub_notifications.response
             IN  IF Accepts(hub_notifications.filter, hub)
                 THEN /\ hub_notifications' = NoParams
                      /\ (waits[w].pc = "waiting" /\ waits[w].rx.st = "open")
                           => waits'[w].rx = [st |-> "sent", hub |-> hub]
                      /\ \A v \in WaitIds \ {w} : waits'[v] = waits[v]
                 ELSE /\ hub_notifications' = hub_notifications
                      /\ waits' = waits
        /\ \A w \in WaitIds :
             /\ waits'[w].rx.st = "sent" => Accepts(waits'[w].filter, waits'[w].rx.hub)
             /\ waits'[w].result.tag = "Ok" => Accepts(waits'[w].filter, waits'[w].result.hub)
             /\ waits[w].rx.st = "sent" => waits'[w].rx = waits[w].rx ]_vars

\* A call filtering on the address of "game" was passed over by the discovery
\* of "hub" and then received the record of "game"
C5_Witness ==
    \E w \in WaitIds :
        /\ waits[w].filter = AddrFilter(GameAddrString)
        /\ waits[w].since = 0
        /\ waits[w].result = [tag |-> "Ok",
                              hub |-> DiscoveredHub("TechnicMediumHub", AddrGame, "game")]
        /\ discovered_hubs = << DiscoveredHub("Hub", AddrHub, "hub"),
                                DiscoveredHub("TechnicMediumHub", AddrGame, "game") >>
        /\ hub_notifications = NoParams

TimedOut(w) == waits[w].pc = "done" /\ waits[w].result.tag = "Timeout"

\* C8: a wait-for-hub call whose timer expires returns Timeout and leaves
\* its PendingWait where it is; the stored PendingWait of a timed-out call
\* goes away only when a matching discovery consumes it (nothing is
\* delivered, the manager keeps running) or a later registration replaces it.
C8_TimeoutKeepsPendingWait ==
    [][\A w \in WaitIds :
         /\ (waits[w].pc = "waiting" /\ waits'[w].result.tag = "Timeout") =>
              /\ waits'[w].pc = "done"
              /\ hub_notifications' = hub_notifications
              /\ control_channel' = control_channel
         /\ (TimedOut(w) /\ hub_notifications.response = w
               /\ hub_notifications' # hub_notifications) =>
              \/ /\ HubDiscoveredStep
                 /\ Accepts(hub_notifications.filter, Head(device_notification_channel))
                 /\ hub_notifications' = NoParams
                 /\ waits' = waits
                 /\ pu_internal' = "running"
              \/ /\ RegistrationStep
                 /\ hub_notifications' = Head(control_channel).params ]_vars

\* The only call timed out, its PendingWait stayed stored and then consumed
\* the later discovery of "game", which reached no caller
C8_Witness ==
    /\ TimedOut(1)
    /\ waits[1].filter = NameFilter("game")
    /\ waits[1].rx.st = "open"
    /\ Registered(1)
    /\ waits[2].pc = "idle"
    /\ pu_internal = "running"
    /\ hub_notifications = NoParams
    /\ \E i \in LoggedSince(1) : discovered_hubs[i].name = "game"

\* C9 for wait_for_hub*: a call whose reply channel was closed because the
\* manager stopped returns the ChannelClosed failure (no other call was
\* issued, so the closed channel is the stopped manager's).
C9_WaitSeesManagerStop ==
    \A w \in WaitIds :
        ( /\ waits[w].pc = "done"
          /\ waits[w].rx.st = "closed"
          /\ pu_internal = "stopped"
          /\ \A v \in WaitIds \ {w} : waits[v].pc = "idle" )
        => waits[w].result.tag = "ChannelClosed"

(***************************************************************************)
(* Claims about identify (checked under SpecIdentify)                      *)
(***************************************************************************)
\* C6: a peripheral whose services contain WEDO2_SMART_HUB is identified as
\* Wedo2SmartHub whatever its manufacturer data and its other services are.
C6_Wedo2AlwaysIdentified ==
    (identified # "NotCalled" /\ WEDO2_SMART_HUB \in props.services)
        => identified = "Wedo2SmartHub"

\* identify answered Wedo2SmartHub for a peripheral that also advertises
\* LPF2_HUB and carries a vendor-919 payload too short to hold a code
C6_Witness ==
    /\ identified = "Wedo2SmartHub"
    /\ LPF2_HUB \in props.services
    /\ LegoVendorId \in DOMAIN props.manufacturer_data
    /\ Len(props.manufacturer_data[LegoVendorId]) < 2

HubKindOfCode ==
    (32 :> "DuploTrainBase") @@ (64 :> "MoveHub") @@ (65 :> "Hub")
      @@ (66 :> "RemoteControl") @@ (67 :> "Mario") @@ (128 :> "TechnicMediumHub")

\* C7: without WEDO2_SMART_HUB, a peripheral advertising LPF2_HUB is not
\* identified when it has no vendor-919 entry, and with one it is identified
\* as the kind the table gives for the byte at offset 1 and not identified
\* for any byte outside the table; with neither service it is not identified.
C7_Lpf2TableLookup ==
    (identified # "NotCalled" /\ WEDO2_SMART_HUB \notin props.services) =>
        IF LPF2_HUB \in props.services
             /\ LegoVendorId \in DOMAIN props.manufacturer_data
        THEN LET payload == props.manufacturer_data[LegoVendorId]
             IN  IF Len(payload) >= 2 /\ payload[2] \in DOMAIN HubKindOfCode
                 THEN identified = HubKindOfCode[payload[2]]
                 ELSE identified = None
        ELSE identified = None

(***************************************************************************)
(* Further claims about discovery and wait_for_hub* (SpecDiscovery)        *)
(***************************************************************************)
\* Call w lost the slot: its reply sender was dropped while the manager runs
Displaced(w) ==
    /\ waits[w].pc = "waiting"
    /\ waits[w].rx.st = "closed"
    /\ pu_internal = "running"

\* C11: a registration that arrives while a PendingWait is stored is rejected
\* or replaces the stored one, and the call that does not hold the slot
\* fails explicitly: it does not end with its own timer's Timeout.
C11_SecondRegistrationTold ==
    [][ /\ (RegistrationStep /\ hub_notifications # NoParams) =>
             hub_notifications' \in { hub_notifications, Head(control_channel).params }
        /\ \A w \in WaitIds :
             (Displaced(w) /\ waits'[w].pc = "done") =>
                 waits'[w].result.tag \notin { "Timeout", "Ok" } ]_vars

(***************************************************************************)
(* Further claims about the Hub Registry (SpecRegistry)                    *)
(***************************************************************************)
\* The registry takes a request of the given type off its channel and
\* answers it (the reply's send did not fail)
Serves(type) ==
    /\ hub_manager = "running"
    /\ command_channel # << >>
    /\ Head(command_channel).type = type
    /\ command_channel' = Tail(command_channel)
    /\ hub_manager' = "running"

\* The replies of the UnknownHub error kind: "No hub found for address {}"
\* of GetPort / SendToHub and "Hub not registered" of Disconnect
IsUnknownHub(reply, addr) ==
    /\ reply.tag \in { "UnknownHub", "HubNotRegistered" }
    /\ reply.addr = addr

\* C12: a Disconnect(A) for an address without live entry is answered with
\* the UnknownHub error and leaves the mapping and the links as they are,
\* whatever other entries the mapping holds; for a live entry the entry is
\* removed whether hub.disconnect() succeeds or fails, the reply is that
\* outcome (Ok for Ok, its error for Err), and the entry of every other
\* address stays as it was; after a Disconnect(A) that succeeded and without
\* a connect since, a Disconnect(A) is answered UnknownHub.
C12_DisconnectRemovesEntry ==
    [][ \A ok \in BOOLEAN :
          (Serves("Disconnect") /\ HubManagerDisconnectOutcome(ok)) =>
             LET a == Head(command_channel).addr
                 r == calls'[Head(command_channel).id].reply
             IN  /\ IF a \notin DOMAIN hubs
                    THEN /\ IsUnknownHub(r, a)
                         /\ hubs' = hubs
                         /\ connected' = connected
                    ELSE /\ DOMAIN hubs' = (DOMAIN hubs) \ {a}
                         /\ \A b \in (DOMAIN hubs) \ {a} :
                              b \in DOMAIN hubs' /\ hubs'[b] = hubs[b]
                         /\ r = IF ok THEN OkReply
                                ELSE ErrorReply("DisconnectFailed", a)
                 /\ a \in now_disconnected => IsUnknownHub(r, a) ]_vars

\* With "game" and "crane" both live, a Disconnect of "game" was answered
\* with the failure of hub.disconnect() and a second one with the UnknownHub
\* error: the entry of "game" is gone and that of "crane" is still there
C12_Witness ==
    \E i, j \in CallIds :
        /\ calls[i].op = "Disconnect"
        /\ calls[i].reply = ErrorReply("DisconnectFailed", AddrGame)
        /\ calls[j].op = "Disconnect"
        /\ IsUnknownHub(calls[j].reply, AddrGame)
        /\ AddrGame \notin DOMAIN hubs
        /\ AddrCrane \in DOMAIN hubs
        /\ hubs[AddrCrane] = [hub_type |-> "TechnicMediumHub"]

\* C13 (with a failure inside identify set aside): stop does not end the
\* Discovery Listener; the listener ends only where it receives adapter
\* events, on the disconnection of the event source, and never while it
\* emits the HubDiscovered notification of an identified hub.
C13_StopLeavesListener ==
    [][ (listener.pc # "panicked" /\ listener'.pc = "panicked")
           => listener.pc = "recv" ]_vars

\* The registry takes the request at the head of its channel
Dequeued ==
    /\ hub_manager = "running"
    /\ Len(command_channel') < Len(command_channel)

\* C14: every ConnectToHub, GetPort, SendToHub and Disconnect the registry
\* dequeues while its caller still listens gets its reply on its own reply
\* channel and no other reply channel changes; this includes a ConnectToHub
\* whose kind stays unknown and one whose kind has no implementation; a
\* Notification gets no reply.
C14_EveryRequestAnswered ==
    [][ Dequeued =>
          LET msg == Head(command_channel)
          IN  IF msg.type = "Notification"
              THEN calls' = calls /\ create' = create
              ELSE IF msg.type = "ConnectToHub"
              THEN /\ calls' = calls
                   /\ CreateListens(msg.id) =>
                        /\ create.reply = NoReply
                        /\ create'.reply # NoReply
              ELSE /\ create' = create
                   /\ \A id \in CallIds \ {msg.id} : calls'[id] = calls[id]
                   /\ CallListens(msg.id) =>
                        /\ calls[msg.id].reply = NoReply
                        /\ calls'[msg.id].reply # NoReply ]_vars

\* The error replies of connect_to_hub
ConnectErrors == { "PeripheralNotFound", "ConnectFailed", "CharacteristicMissing" }

\* C15: while the registry runs, its mapping changes only when a
\* ConnectToHub(d) that completed every step adds or overwrites the entry of
\* d.addr, replying with a HubController for d.addr, and when a Disconnect(A)
\* removes the live entry of A; a ConnectToHub answered with an error leaves
\* the mapping as it was, an entry already stored for the address included,
\* and a HubController is replied only with its address in the mapping.
C15_MappingChanges ==
    [][ /\ (hubs' # hubs /\ hub_manager' = "running") =>
             LET msg == Head(command_channel)
             IN  \/ /\ Serves("ConnectToHub")
                    /\ create'.reply = ControllerReply(msg.hub.addr, create'.reply.hub_type,
                                                       create'.reply.name)
                    /\ DOMAIN hubs' = (DOMAIN hubs) \cup {msg.hub.addr}
                    /\ \A b \in (DOMAIN hubs) \ {msg.hub.addr} : hubs'[b] = hubs[b]
                 \/ /\ Serves("Disconnect")
                    /\ msg.addr \in DOMAIN hubs
                    /\ hubs' = Remove(hubs, msg.addr)
        /\ Serves("ConnectToHub") =>
             LET d == Head(command_channel).hub
                 r == create'.reply
             IN  IF r.tag = "HubController"
                 THEN r.addr = d.addr /\ d.addr \in DOMAIN hubs'
                 ELSE /\ r.tag \in ConnectErrors
                      /\ r.addr = d.addr
                      /\ hubs' = hubs ]_vars

\* A ConnectToHub for "game" failed on the missing control characteristic
\* while the entry of an earlier successful connect to "game" is stored
C15_Witness ==
    /\ create.reply = ErrorReply("CharacteristicMissing", AddrGame)
    /\ AddrGame \in DOMAIN hubs
    /\ AddrGame \in controllers

(***************************************************************************)
(* Claims about the discovery log and the listener's emissions             *)
(***************************************************************************)
\* The notifications emitted so far, in order, while the manager runs: the
\* ones already logged followed by the ones still queued
EmittedSoFar == discovered_hubs \o device_notification_channel

\* C16: the discovery log is append-only and ordered.  A step changes the
\* log only by appending the HubDiscovered the manager takes off its channel,
\* and the manager appends every one it takes, with or without PendingWait,
\* matched or not; the logged and queued notifications together grow only at
\* the end, by the notification the listener emits, so the log order is the
\* emission order; the listener emits between two adapter events, so that
\* order is the adapter-event order.
C16_DiscoveryLogAppendOnly ==
    [][ /\ discovered_hubs' # discovered_hubs =>
             /\ device_notification_channel # << >>
             /\ discovered_hubs' =
                  Append(discovered_hubs, Head(device_notification_channel))
        /\ (pu_internal = "running"
              /\ Len(device_notification_channel') < Len(device_notification_channel)
              /\ pu_internal' = "running") =>
             /\ device_notification_channel' = Tail(device_notification_channel)
             /\ discovered_hubs' =
                  Append(discovered_hubs, Head(device_notification_channel))
        /\ pu_internal' = "running" =>
             \/ EmittedSoFar' = EmittedSoFar
             \/ /\ listener.pc = "send"
                /\ listener'.pc = "recv"
                /\ EmittedSoFar' = Append(EmittedSoFar, listener.notification)
        /\ events' # events => (listener.pc = "recv" /\ listener.notification = NoHub) ]_vars

\* "game" was logged twice: the first record with no PendingWait stored, the
\* second after it was sent to the call registered in between
C16_Witness ==
    /\ discovered_hubs = << DiscoveredHub("TechnicMediumHub", AddrGame, "game"),
                            DiscoveredHub("TechnicMediumHub", AddrGame, "game") >>
    /\ waits[1].since = 1
    /\ waits[1].result = [tag |-> "Ok",
                          hub |-> DiscoveredHub("TechnicMediumHub", AddrGame, "game")]
    /\ hub_notifications = NoParams

\* Does the claim let the listener emit for evt?  Written out from the claim
Emits(evt) ==
    /\ evt.kind = "DeviceDiscovered"
    /\ Peripherals[evt.dev].local_name # None
    /\ evt.dev \notin connected
    /\ identify(Peripherals[evt.dev]) \in HubType

\* C17: for a DeviceDiscovered event of a peripheral with a name, not
\* connected and identified as a kind, the listener goes on to emit one
\* HubDiscovered carrying the event's address, the name and that kind; for
\* every other event it emits nothing; the channel to the manager grows only
\* by that one notification, once per event.
C17_ListenerEmits ==
    [][ /\ \A evt \in CentralEvents :
             ListenerEvent(evt) =>
                 IF Emits(evt)
                 THEN listener' =
                        [pc |-> "send",
                         notification |->
                            DiscoveredHub(identify(Peripherals[evt.dev]), evt.dev,
                                          Peripherals[evt.dev].local_name)]
                 ELSE /\ listener'.pc # "send"
                      /\ listener'.notification = NoHub
                      /\ device_notification_channel' = device_notification_channel
        /\ Len(device_notification_channel') > Len(device_notification_channel) =>
             /\ listener.pc = "send"
             /\ device_notification_channel' =
                  Append(device_notification_channel, listener.notification)
             /\ listener' = [pc |-> "recv", notification |-> NoHub] ]_vars

\* With the link to "game" up, two events were handled: the first emitted
\* nothing and the second made the listener emit the record of "hub"
C17_Witness ==
    /\ AddrGame \in connected
    /\ events = 2
    /\ listener = [pc |-> "send",
                   notification |-> DiscoveredHub("Hub", AddrHub, "hub")]
    /\ device_notification_channel = << >>
    /\ discovered_hubs = << >>
    /\ pu_internal = "running"

(***************************************************************************)
(* Claims about hardware notifications (SpecBackpressure, SpecRegistry)    *)
(***************************************************************************)
\* The Notification messages queued for the registry, oldest first
QueuedNotifications(ch) ==
    SelectSeq(ch, LAMBDA m : m.type = "Notification")

\* C18: while the registry runs, a raw buffer that parses is appended to the
\* registry's request channel as Notification(hub address, message); with
\* the channel full the callback does not take the step, it blocks, and no
\* buffer is given up; the queued notifications of a hub stay in the order
\* of delivery and the registry takes them from the head.  A buffer that
\* does not parse leaves the channel, the mapping and the registry as they
\* are.
C18_NotificationsQueued ==
    [][ /\ \A addr \in DOMAIN Peripherals, parsed \in BOOLEAN :
             (HardwareBuffer(addr, parsed) /\ hub_manager = "running") =>
                 IF parsed
                 THEN /\ Len(command_channel) < CommandCapacity
                      /\ command_channel' =
                           Append(command_channel,
                                  Message("Notification", addr, None, NoHub, notifs + 1))
                 ELSE /\ command_channel' = command_channel
                      /\ hubs' = hubs
                      /\ hub_manager' = "running"
        /\ Serves("Notification") => hubs' = hubs
        /\ LET q == QueuedNotifications(command_channel')
           IN  \A i, j \in 1..Len(q) :
                 (i < j /\ q[i].addr = q[j].addr) => q[i].id < q[j].id
        /\ Len(command_channel') <= CommandCapacity ]_vars

\* The request channel is full of the notifications of "game", buffers 2 to
\* 11 in order, and the hub's entry is still live
C18_Witness ==
    /\ Len(command_channel) = CommandCapacity
    /\ \A i \in 1..CommandCapacity :
         command_channel[i] = Message("Notification", AddrGame, None, NoHub, i + 1)
    /\ AddrGame \in DOMAIN hubs
    /\ hub_manager = "running"

\* C19: the GetPort, SendToHub and Notification the registry serves leave
\* its mapping (and the links and callbacks) as they are, whatever the
\* reply; a SendToHub(A, msg) is answered UnknownHub when A has no live
\* entry and otherwise with the Ok or the error of hub.send(msg); a
\* Notification changes nothing but the channel it is taken from.
C19_MappingFrame ==
    [][ /\ \A type \in { "GetPort", "SendToHub", "Notification" } :
             Serves(type) =>
                 /\ hubs' = hubs
                 /\ connected' = connected
                 /\ callbacks' = callbacks
        /\ Serves("SendToHub") =>
             LET a == Head(command_channel).addr
                 r == calls'[Head(command_channel).id].reply
             IN  IF a \notin DOMAIN hubs
                 THEN r = UnknownHubReply(a)
                 ELSE r \in { OkReply, ErrorReply("SendFailed", a) }
        /\ Serves("Notification") =>
             /\ calls' = calls
             /\ create' = create
             /\ << controllers, devices >>' = << controllers, devices >> ]_vars

\* A device of "game" sent a message after the hub's entry was removed and
\* was answered UnknownHub
C19_Witness ==
    \E i \in CallIds :
        /\ calls[i].op = "SendToHub"
        /\ calls[i].reply = UnknownHubReply(AddrGame)
        /\ AddrGame \in devices
        /\ AddrGame \notin DOMAIN hubs
        /\ hub_manager = "running"

\* C20: every Notification(A, msg) the registry processes names an address
\* with a live entry, and no peripheral without live entry has a callback
\* installed while its link is up and the registry runs: neither after a
\* ConnectToHub that failed past the installation of the callback nor after
\* a Disconnect that removed the entry.
C20_NotificationsOnlyForLiveHubs ==
    [][ /\ Serves("Notification") => Head(command_channel).addr \in DOMAIN hubs
        /\ hub_manager' = "running" =>
             \A a \in callbacks' : a \in connected' => a \in DOMAIN hubs' ]_vars

\* The registry takes the request at the head of its channel
RegistryStep ==
    /\ hub_manager = "running"
    /\ command_channel # << >>
    /\ \/ command_channel' = Tail(command_channel)
       \/ hub_manager' = "panicked"

\* The manager processes Stop
StopProcessed == pu_internal = "running" /\ pu_internal' = "stopped"

\* C21: processing Stop changes nothing of the registry (mapping, links,
\* callbacks, queued requests, its loop); the mapping, the links and the
\* registry's loop change only in a step of the registry itself, which leaves
\* the discovery side alone; once the manager has stopped, a GetPort, SendToHub,
\* Disconnect or ConnectToHub the registry answers gets the reply the request
\* has from the current mapping, as with a running manager; and a wait-for-hub
\* call started after the manager has stopped ends at once with the closed
\* channel's error, queues nothing and registers no PendingWait.
C21_StopLeavesRegistry ==
    [][ /\ StopProcessed => UNCHANGED << registryVars, connected >>
        /\ pu_internal' # pu_internal => StopProcessed
        /\ (hubs' # hubs \/ connected' # connected \/ hub_manager' # hub_manager)
             => RegistryStep /\ UNCHANGED discoveryVars
        /\ (pu_internal = "stopped" /\ Serves("GetPort")) =>
             LET msg == Head(command_channel)
             IN  /\ calls'[msg.id].reply = get_port(msg.addr, msg.port)
                 /\ hubs' = hubs
        /\ (pu_internal = "stopped" /\ Serves("SendToHub")) =>
             LET msg == Head(command_channel)
             IN  /\ \E ok \in BOOLEAN :
                      calls'[msg.id].reply = send_to_hub(msg.addr, ok)
                 /\ hubs' = hubs
        /\ (pu_internal = "stopped" /\ Serves("Disconnect")) =>
             LET msg == Head(command_channel)
             IN  \E ok \in BOOLEAN :
                   LET r == disconnect(msg.addr, ok)
                   IN  /\ calls'[msg.id].reply = r.reply
                       /\ hubs' = r.hubs
                       /\ connected' = r.connected
        /\ (pu_internal = "stopped" /\ Serves("ConnectToHub")) =>
             LET msg == Head(command_channel)
             IN  \E o \in ConnectOutcomes :
                   LET r == connect_to_hub(msg.hub, o)
                   IN  /\ create'.reply = r.reply
                       /\ hubs' = r.hubs
                       /\ connected' = r.connected
        /\ \A w \in WaitIds :
             (pu_internal = "stopped" /\ WaitStart(w)) =>
                /\ waits'[w].pc = "done"
                /\ waits'[w].result = [tag |-> "ChannelClosed", hub |-> NoHub]
                /\ hub_notifications' = hub_notifications
                /\ control_channel' = control_channel ]_vars

\* The manager has stopped, a wait-for-hub call ended with the closed
\* channel's error without being registered, and the registry still runs with
\* "game" live and has answered a GetPort with the PortController of port D
C21_Witness ==
    /\ pu_internal = "stopped"
    /\ hub_manager = "running"
    /\ AddrGame \in DOMAIN hubs
    /\ AddrGame \in connected
    /\ hub_notifications = NoParams
    /\ \E w \in WaitIds :
         /\ waits[w].pc = "done"
         /\ waits[w].result.tag = "ChannelClosed"
    /\ \E id \in CallIds : calls[id].reply = PortControllerReply(AddrGame, "D", 3)

(***************************************************************************)
(* Totality of identify (SpecIdentify)                                     *)
(***************************************************************************)
\* C22: for every advertised property set, a vendor-919 payload of length 0
\* or 1 on a peripheral advertising the LPF2 hub service included, identify
\* returns a hub kind or no identification and never fails.
C22_IdentifyTotal ==
    identified # "NotCalled" =>
        \/ identified = None
        \/ identified = "Wedo2SmartHub"
        \/ \E code \in DOMAIN HubKindOfCode : identified = HubKindOfCode[code]
====
